---- MODULE Spec2Model ----
(***************************************************************************)
(* Model of the hotel availability monitor (enhanced_monitor.py):          *)
(* the two backend adapters, the diff engine, the notification dispatcher  *)
(* and the check cycle that ties them to the persisted state file.         *)
(*                                                                         *)
(* Strings that the code takes apart or builds (dates, class names, room   *)
(* names, prices, icon class lists) are sequences of tokens, so that       *)
(* str.replace, startswith, "in" and f-string concatenation are computed.  *)
(* A Python exception is a result record with raised = TRUE.               *)
(***************************************************************************)
EXTENDS Integers, Sequences, FiniteSets, TLC

\* ------------------------------------------------------------------ bounds
MaxAki == 2
MaxPrices == 1
MaxDays == 2
MaxPrev == 2
MaxCycles == 2
MaxIcons == 3
MaxControls == 2
MaxLinks == 1
MaxRows == 2
MaxLines == 2

\* ------------------------------------------------------- string helpers
\* str.replace(old, new) on a token sequence
Replace(s, old, new) == [n \in DOMAIN s |-> IF s[n] = old THEN new ELSE s[n]]

\* Python "pat in s" for token sequences: pat is a contiguous part of s
IsInfix(pat, s) ==
    \E n \in 0..(Len(s) - Len(pat)) :
        \A j \in 1..Len(pat) : s[n + j] = pat[j]

\* the sequences over S of length at most n
SeqUpTo(S, n) == UNION {[1..k -> S] : k \in 0..n}

\* the elements of a sequence
Range(s) == {s[n] : n \in DOMAIN s}

\* int(x) of a JSON string: the value, or a ValueError
IntLiterals == {"0", "1", "2"}
ParseInt(x) == CASE x = "0" -> 0 [] x = "1" -> 1 [] x = "2" -> 2 [] OTHER -> 0

\* ------------------------------------------------------- configuration
Date(y, sep, m, d) == <<y, sep, m, sep, d>>

\* self.hotels: keys is the set of keys each hotel dict has
hotels ==
    << [name |-> "Kamikochi Taisho-ike Hotel",
        api_type |-> "jsonp",
        keys |-> {"name", "hotel_id", "plan_id", "target_dates", "api_url", "api_type"},
        target_dates |-> << Date("2025", "-", "10", "24"), Date("2025", "-", "10", "25") >>],
       [name |-> "Ginzanso",
        api_type |-> "html_calendar",
        keys |-> {"name", "year", "month", "plan_type", "target_dates", "api_url", "api_type"},
        target_dates |-> << <<"2026", "-", "02">> >>] >>

NumHotels == Len(hotels)

\* the dataclass RoomAvailability
RoomAvailability(room_name, date, available_count, price, status) ==
    [room_name |-> room_name, date |-> date, available_count |-> available_count,
     price |-> price, status |-> status]

\* ------------------------------------------------ JSONP adapter (analysis)
\* price lookup of analyze_jsonp_data: the last matching non-'0' entry wins
RECURSIVE PriceFor(_, _, _)
PriceFor(prices, date, price) ==
    IF prices = <<>> THEN price
    ELSE LET price_info == Head(prices)
             p == IF Replace(price_info.price_date, "/", "-") = date
                     /\ price_info.price_2 # "0"
                  THEN <<"¥", price_info.price_2>>
                  ELSE price
         IN  PriceFor(Tail(prices), date, p)

JsonpStatusGe(available, price) ==
    IF available >= 0 THEN "available"
    ELSE IF price # <<"No price">> THEN "sold_out"
    ELSE "not_bookable"

\* status derivation of analyze_jsonp_data
JsonpStatus(available, price) ==
    IF available > 0 THEN "available"
    ELSE IF price # <<"No price">> THEN "sold_out"
    ELSE "not_bookable"

\* the loop over room['aki']: the records of one room, or raised
RECURSIVE AnalyzeAki(_, _, _, _, _)
AnalyzeAki(aki_list, prices, room_name, target_dates, results) ==
    IF aki_list = <<>> THEN [raised |-> FALSE, results |-> results]
    ELSE LET aki == Head(aki_list)
             date == Replace(aki.aki_date, "/", "-")
         IN  IF date \in Range(target_dates)
             THEN IF aki.aki_num \notin IntLiterals \/ aki.sold_out_f \notin IntLiterals
                  THEN [raised |-> TRUE, results |-> results]
                  ELSE LET available == ParseInt(aki.aki_num)
                           price == PriceFor(prices, date, <<"No price">>)
                           rec == RoomAvailability(room_name, date, available, price,
                                                   JsonpStatus(available, price))
                       IN  AnalyzeAki(Tail(aki_list), prices, room_name, target_dates,
                                      Append(results, rec))
             ELSE AnalyzeAki(Tail(aki_list), prices, room_name, target_dates, results)

\* the loop over api_data['rooms']
RECURSIVE AnalyzeRooms(_, _, _)
AnalyzeRooms(rooms, hotel_config, results) ==
    IF rooms = <<>> THEN [raised |-> FALSE, results |-> results]
    ELSE LET room == Head(rooms)
             room_eng_name == IF room.has_name_eng THEN room.room_name_eng
                              ELSE <<"Room ", room.room_id>>
             room_name == <<hotel_config.name, " - ">> \o room_eng_name
             r == AnalyzeAki(room.aki, room.prices, room_name,
                             hotel_config.target_dates, results)
         IN  IF r.raised THEN r
             ELSE AnalyzeRooms(Tail(rooms), hotel_config, r.results)

analyze_jsonp_data(api_data, hotel_config) ==
    CASE api_data.shape = "number" -> [raised |-> TRUE, results |-> <<>>]
      [] api_data.shape = "list"   -> [raised |-> FALSE, results |-> <<>>]
      [] ~api_data.has_rooms       -> [raised |-> FALSE, results |-> <<>>]
      [] api_data.rooms_null       -> [raised |-> TRUE, results |-> <<>>]
      [] OTHER -> AnalyzeRooms(api_data.rooms, hotel_config, <<>>)

\* --------------------------------------- HTML calendar adapter (analysis)
\* re.compile(r'2026-02-\d+').search(class_name); the tokens "1", "01",
\* "02" are those \d+ matches
MatchesDateRegex(class_name) ==
    \E n \in 1..(Len(class_name) - 1) :
        class_name[n] = "2026-02-" /\ class_name[n + 1] \in {"1", "01", "02"}

\* soup.find(class_=...): the class list of the first element one of whose
\* classes matches, or <<>> when there is none
RECURSIVE FindDateElem(_)
FindDateElem(elems) ==
    IF elems = <<>> THEN <<>>
    ELSE IF \E n \in DOMAIN Head(elems) : MatchesDateRegex(Head(elems)[n])
         THEN Head(elems)
         ELSE FindDateElem(Tail(elems))

\* the loop over date_elem's classes: the first with the prefix, or <<>>
RECURSIVE FirstDateClass(_)
FirstDateClass(classes) ==
    IF classes = <<>> THEN <<>>
    ELSE IF Len(Head(classes)) >= 1 /\ Head(classes)[1] = "2026-02-"  \* startswith
         THEN Head(classes)
         ELSE FirstDateClass(Tail(classes))

\* the loop over the cell's <i> elements, in markup order; the first icon
\* that matches one of the four patterns decides
RECURSIVE ClassifyIcons(_)
ClassifyIcons(icons) ==
    IF icons = <<>> THEN [status |-> "not_bookable", available_count |-> 0]
    ELSE LET icon_classes == Head(icons)
         IN  IF IsInfix(<<"fa-regular", "fa-circle">>, icon_classes)
             THEN [status |-> "available", available_count |-> 1]
             ELSE IF IsInfix(<<"fa-solid", "fa-triangle-exclamation">>, icon_classes)
             THEN [status |-> "available", available_count |-> 1]
             ELSE IF IsInfix(<<"fa-solid", "fa-xmark">>, icon_classes)
             THEN [status |-> "sold_out", available_count |-> 0]
             ELSE IF IsInfix(<<"fa-solid", "fa-minus", "text-danger">>, icon_classes)
             THEN [status |-> "not_released", available_count |-> 0]
             ELSE ClassifyIcons(Tail(icons))

\* "if status != 'not_released'": a day not yet released is not reported
ShouldReportAll(status) == TRUE

ShouldReport(status) == status # "not_released"

\* the records of the day cells of the selected month, in order
RECURSIVE AnalyzeDays(_, _, _)
AnalyzeDays(days, hotel_config, results) ==
    IF days = <<>> THEN results
    ELSE LET cell == Head(days)
             date_str == FirstDateClass(FindDateElem(cell.elems))
             c == ClassifyIcons(cell.icons)
             rec == RoomAvailability(<<hotel_config.name, " - ", "Room">>, date_str,
                                     c.available_count, <<"Check website">>, c.status)
         IN  IF cell.blank \/ date_str = <<>>
             THEN AnalyzeDays(Tail(days), hotel_config, results)
             ELSE IF ShouldReport(c.status)
             THEN AnalyzeDays(Tail(days), hotel_config, Append(results, rec))
             ELSE AnalyzeDays(Tail(days), hotel_config, results)

\* the first month entry whose caption contains the hard-coded caption of
\* February 2026 (tokens "2026nen" "2gatsu" stand for the two halves of the
\* Japanese caption), as a sequence of at most one element
RECURSIVE FindTargetMonth(_)
FindTargetMonth(months) ==
    IF months = <<>> THEN <<>>
    ELSE IF IsInfix(<<"2026nen", "2gatsu">>, Head(months).calendarCaption)
         THEN <<Head(months)>>
         ELSE FindTargetMonth(Tail(months))

analyze_html_calendar_data(api_data, hotel_config) ==
    IF api_data.shape # "dict"
    THEN [raised |-> TRUE, results |-> <<>>, warned |-> FALSE]
    ELSE LET target_month_data == FindTargetMonth(api_data.months)
         IN  IF target_month_data = <<>>
             THEN [raised |-> FALSE, results |-> <<>>, warned |-> TRUE]
             ELSE IF ~target_month_data[1].data_ok
             THEN [raised |-> TRUE, results |-> <<>>, warned |-> FALSE]
             ELSE [raised |-> FALSE, warned |-> FALSE,
                   results |-> AnalyzeDays(target_month_data[1].days, hotel_config, <<>>)]

\* analyze_data: dispatch on the hotel's api_type
analyze_data(api_data, hotel_config) ==
    IF hotel_config.api_type = "jsonp"
    THEN analyze_jsonp_data(api_data, hotel_config) @@ [warned |-> FALSE]
    ELSE IF hotel_config.api_type = "html_calendar"
    THEN analyze_html_calendar_data(api_data, hotel_config)
    ELSE [raised |-> FALSE, results |-> <<>>, warned |-> FALSE]

\* --------------------------------------------------------- diff engine
AnyMatchRoomOnly(room, lst) ==
    \E n \in DOMAIN lst : lst[n].room = room.room

AnyMatchWithCount(room, lst) ==
    \E n \in DOMAIN lst :
        lst[n].room = room.room /\ lst[n].date = room.date /\ lst[n].count = room.count

\* any(p['room'] == room['room'] and p['date'] == room['date'] for p in lst)
AnyMatch(room, lst) ==
    \E n \in DOMAIN lst : lst[n].room = room.room /\ lst[n].date = room.date

\* [ {...} for r in current if r.status == 'available' ]
RECURSIVE CurrentAvailable(_)
CurrentAvailable(current) ==
    IF current = <<>> THEN <<>>
    ELSE LET r == Head(current)
         IN  IF r.status = "available"
             THEN <<[room |-> r.room_name, date |-> r.date,
                     count |-> r.available_count, price |-> r.price]>>
                  \o CurrentAvailable(Tail(current))
             ELSE CurrentAvailable(Tail(current))

\* for room in lst: if not any(... in other): out.append(room)
RECURSIVE NotIn(_, _)
NotIn(lst, other) ==
    IF lst = <<>> THEN <<>>
    ELSE IF ~AnyMatch(Head(lst), other)
         THEN <<Head(lst)>> \o NotIn(Tail(lst), other)
         ELSE NotIn(Tail(lst), other)

detect_changes(current, previous) ==
    LET current_available == CurrentAvailable(current)
        prev_available == previous
        new_available == NotIn(current_available, prev_available)
        lost_available == NotIn(prev_available, current_available)
    IN  [new_available |-> new_available,
         lost_available |-> lost_available,
         current_available |-> current_available,
         has_changes |-> (new_available # <<>> \/ lost_available # <<>>)]

\* ------------------------------------------------- notification channels
\* the channels in the order notify_all calls them
Channels == <<"email", "discord", "slack", "pushover", "telegram">>

\* the environment variables __init__ reads
EnvVars == {"EMAIL_USER", "EMAIL_PASS", "NOTIFY_EMAIL", "DISCORD_WEBHOOK",
            "SLACK_WEBHOOK", "PUSHOVER_TOKEN", "PUSHOVER_USER",
            "TELEGRAM_BOT_TOKEN", "TELEGRAM_CHAT_ID"}

\* self.notifications[c]['enabled'] for the set e of variables that are set
Enabled(c, e) ==
    CASE c = "email"    -> "EMAIL_USER" \in e
      [] c = "discord"  -> "DISCORD_WEBHOOK" \in e
      [] c = "slack"    -> "SLACK_WEBHOOK" \in e
      [] c = "pushover" -> "PUSHOVER_TOKEN" \in e
      [] c = "telegram" -> "TELEGRAM_BOT_TOKEN" \in e /\ "TELEGRAM_CHAT_ID" \in e

\* the variables a send over channel c uses
Credentials(c) ==
    CASE c = "email"    -> {"EMAIL_USER", "EMAIL_PASS", "NOTIFY_EMAIL"}
      [] c = "discord"  -> {"DISCORD_WEBHOOK"}
      [] c = "slack"    -> {"SLACK_WEBHOOK"}
      [] c = "pushover" -> {"PUSHOVER_TOKEN", "PUSHOVER_USER"}
      [] c = "telegram" -> {"TELEGRAM_BOT_TOKEN", "TELEGRAM_CHAT_ID"}

\* what the remote end can answer: a send can always fail, and can succeed
\* only with all credentials present
SendOutcomes(c, e) == IF Credentials(c) \subseteq e THEN {"ok", "fail"} ELSE {"fail"}

SendNotificationUncaught(c, e, out) ==
    IF ~Enabled(c, e)
    THEN [attempted |-> FALSE, logged |-> {}, raised |-> FALSE]
    ELSE IF out = "ok"
    THEN [attempted |-> TRUE, logged |-> {<<"info", "notification sent", c>>}, raised |-> FALSE]
    ELSE [attempted |-> TRUE, logged |-> {}, raised |-> TRUE]

\* one send_<channel>_notification call: early return when disabled, else
\* the send inside try/except; raised tells whether an exception leaves it
SendNotification(c, e, out) ==
    IF ~Enabled(c, e)
    THEN [attempted |-> FALSE, logged |-> {}, raised |-> FALSE]
    ELSE IF out = "ok"
    THEN [attempted |-> TRUE, logged |-> {<<"info", "notification sent", c>>}, raised |-> FALSE]
    ELSE [attempted |-> TRUE, logged |-> {<<"error", "Failed to send", c>>}, raised |-> FALSE]

\* notify_all from channel k on: the five sends in order; an exception that
\* leaves a send ends notify_all
RECURSIVE NotifyFrom(_, _, _, _)
NotifyFrom(k, e, outs, acc) ==
    IF k > Len(Channels) THEN acc
    ELSE LET c == Channels[k]
             r == SendNotification(c, e, outs[c])
             a == [attempts |-> [acc.attempts EXCEPT ![c] = @ + (IF r.attempted THEN 1 ELSE 0)],
                   logged |-> acc.logged \cup r.logged,
                   raised |-> r.raised]
         IN  IF r.raised THEN a ELSE NotifyFrom(k + 1, e, outs, a)

NoAttempts == [c \in Range(Channels) |-> 0]

notify_all(e, outs) ==
    NotifyFrom(1, e, outs, [attempts |-> NoAttempts, logged |-> {}, raised |-> FALSE])

\* format_notification_message: the booking-link loop reads hotel['hotel_id']
\* of every hotel, a KeyError for a hotel without that key
format_notification_message(ch) ==
    IF \E h \in DOMAIN hotels : "hotel_id" \notin hotels[h].keys
    THEN [raised |-> TRUE, lists |-> <<>>]
    ELSE [raised |-> FALSE,
          lists |-> <<ch.new_available, ch.lost_available, ch.current_available>>]

\* ------------------------------------------------------------ state file
\* load_state: the parsed JSON value, or the default when the file is
\* absent (no log) or cannot be opened or parsed (warning)
FileOfKind(k) ==
    [kind |-> k, has_last |-> FALSE, last_available |-> <<>>,
     has_count |-> FALSE, check_count |-> 0]

DefaultState ==
    [kind |-> "dict", has_last |-> TRUE, last_available |-> <<>>,
     has_count |-> FALSE, check_count |-> 0]

load_state(f) ==
    CASE f.kind = "absent" -> [state |-> DefaultState, logged |-> {}]
      [] f.kind \in {"unreadable", "unparseable"} ->
            [state |-> DefaultState, logged |-> {<<"warning", "Could not load state", "">>}]
      [] OTHER -> [state |-> f, logged |-> {}]

\* state.get('last_available', []) followed by detect_changes: raises when
\* the parsed value is not a dict (kind "not_dict", e.g. a JSON list) or its
\* last_available is not a list (kind "bad_last", e.g. null)
DiffAgainst(current, st) ==
    IF st.kind # "dict" THEN [raised |-> TRUE, changes |-> detect_changes(<<>>, <<>>)]
    ELSE [raised |-> FALSE,
          changes |-> detect_changes(current,
                                     IF st.has_last THEN st.last_available ELSE <<>>)]

NextCountSame(st) == IF st.has_count THEN st.check_count ELSE 0

\* state.get('check_count', 0) + 1
NextCount(st) == (IF st.has_count THEN st.check_count ELSE 0) + 1

NewStateStale(ch, st) ==
    [kind |-> "dict", has_last |-> TRUE,
     last_available |-> st.last_available,
     has_count |-> TRUE,
     check_count |-> NextCount(st)]

\* the dict run_single_check hands to save_state
NewState(ch, st) ==
    [kind |-> "dict", has_last |-> TRUE,
     last_available |-> ch.current_available,
     has_count |-> TRUE,
     check_count |-> NextCount(st)]

\* save_state: the file afterwards; open() can fail (file untouched) and the
\* dump can fail after open() truncated the file
SaveOutcomes == {"ok", "open_failed", "write_failed"}
save_state(f, new_state, out) ==
    CASE out = "ok" -> [file |-> new_state, logged |-> {}]
      [] out = "open_failed" ->
            [file |-> f, logged |-> {<<"error", "Could not save state", "">>}]
      [] OTHER ->
            [file |-> FileOfKind("unparseable"),
             logged |-> {<<"error", "Could not save state", "">>}]

\* ------------------------------------------------------ backend responses
\* call_api: the parsed data as a sequence of at most one element (<<>> is
\* None); every exception of the fetch is caught and logged here
call_apiUncaught(hotel_config, resp) ==
    IF resp.kind \in {"timeout", "connection", "http_error", "bad_json"}
    THEN [api_data |-> <<>>, logged |-> {}, raised |-> TRUE]
    ELSE [api_data |-> <<resp.data>>, logged |-> {}, raised |-> FALSE]

call_api(hotel_config, resp) ==
    IF hotel_config.api_type \notin {"jsonp", "html_calendar"}
    THEN [api_data |-> <<>>, raised |-> FALSE,
          logged |-> {<<"error", "Unknown API type", hotel_config.name>>}]
    ELSE IF resp.kind \in {"timeout", "connection", "http_error", "bad_json"}
    THEN [api_data |-> <<>>, raised |-> FALSE,
          logged |-> {<<"error", "API call failed", hotel_config.name>>}]
    ELSE IF hotel_config.api_type = "jsonp" /\ resp.kind = "no_envelope"
    THEN [api_data |-> <<>>, raised |-> FALSE,
          logged |-> {<<"error", "Failed to parse JSONP response", hotel_config.name>>}]
    ELSE [api_data |-> <<resp.data>>, raised |-> FALSE, logged |-> {}]

\* one iteration of the loop over self.hotels in run_single_check
PollOne(hotel_config, resp) ==
    LET c == call_api(hotel_config, resp)
    IN  IF c.raised
        THEN [raised |-> TRUE, records |-> <<>>, fetched |-> FALSE, logged |-> c.logged]
        ELSE IF c.api_data = <<>> \/ c.api_data[1].shape = "empty"
        THEN [raised |-> FALSE, records |-> <<>>, fetched |-> FALSE,
              logged |-> c.logged \cup {<<"error", "Failed to get API data", hotel_config.name>>}]
        ELSE LET a == analyze_data(c.api_data[1], hotel_config)
             IN  [raised |-> a.raised, records |-> a.results, fetched |-> TRUE,
                  logged |-> c.logged \cup
                             (IF a.warned
                              THEN {<<"warning", "Could not find month data", hotel_config.name>>}
                              ELSE {})]

\* --- what the JSONP backend can answer
Aki(date, num) == [aki_date |-> date, aki_num |-> num, sold_out_f |-> "0"]

JsonpValue(shape, has_rooms, rooms_null, rooms) ==
    [shape |-> shape, has_rooms |-> has_rooms, rooms_null |-> rooms_null, rooms |-> rooms]

JsonpData ==
    { JsonpValue("empty", FALSE, FALSE, <<>>),
      JsonpValue("number", FALSE, FALSE, <<>>),
      JsonpValue("list", FALSE, FALSE, <<>>),
      JsonpValue("dict", FALSE, FALSE, <<>>),
      JsonpValue("dict", TRUE, TRUE, <<>>) }
    \cup { JsonpValue("dict", TRUE, FALSE,
                       << [room_id |-> "1", has_name_eng |-> TRUE,
                           room_name_eng |-> <<"Twin">>,
                           aki |-> aki, prices |-> prices] >>) :
             aki \in SeqUpTo(
                 { Aki(Date("2025", "/", "10", "24"), "1"),
                   Aki(Date("2025", "/", "10", "24"), "0"),
                   Aki(Date("2025", "-", "10", "25"), "1"),
                   Aki(Date("2025", "/", "10", "26"), "1"),
                   Aki(Date("2025", "/", "10", "24"), "x") }, MaxAki),
             prices \in SeqUpTo(
                 { [price_date |-> Date("2025", "/", "10", "24"), price_2 |-> "8000"],
                   [price_date |-> Date("2025", "/", "10", "24"), price_2 |-> "0"] }, MaxPrices) }

\* --- what the calendar backend can answer
CircleIcon == <<"fa-regular", "fa-circle">>
TriangleIcon == <<"fa-solid", "fa-triangle-exclamation">>
XmarkIcon == <<"fa-solid", "fa-xmark">>
MinusIcon == <<"fa-solid", "fa-minus", "text-danger">>
PlainMinusIcon == <<"fa-solid", "fa-minus">>

DayClass(d) == <<"2026-02-", d>>

Cell(elems, icons) == [blank |-> FALSE, elems |-> elems, icons |-> icons]

Month(caption, data_ok, days) ==
    [calendarCaption |-> caption, data_ok |-> data_ok, days |-> days]

February == <<"2026nen", "2gatsu">>
March == <<"2026nen", "3gatsu">>

HtmlData ==
    { [shape |-> "empty", months |-> <<>>],
      [shape |-> "list", months |-> <<>>],
      [shape |-> "dict", months |-> <<Month(March, TRUE, <<>>)>>],
      [shape |-> "dict", months |-> <<Month(February, FALSE, <<>>)>>] }
    \cup { [shape |-> "dict", months |-> <<Month(March, TRUE, <<>>), Month(February, TRUE, days)>>] :
             days \in SeqUpTo(
               { Cell(<< <<<<"day">>, DayClass("01")>> >>, <<CircleIcon>>),
                 Cell(<< <<<<"day">>, DayClass("01")>> >>, <<XmarkIcon>>),
                 Cell(<< <<<<"day">>, DayClass("01")>> >>, <<MinusIcon>>),
                 Cell(<< <<<<"day">>, DayClass("01")>> >>, <<MinusIcon, CircleIcon>>),
                 Cell(<< <<<<"day">>, DayClass("01")>> >>, <<PlainMinusIcon>>),
                 Cell(<< <<<<"day">>>>, <<DayClass("02")>> >>, <<PlainMinusIcon, TriangleIcon>>),
                 Cell(<< <<<<"day">>, <<"2026-03-", "01">>>> >>, <<CircleIcon>>),
                 [blank |-> TRUE, elems |-> <<>>, icons |-> <<>>] }, MaxDays) }

FetchFailures == {"timeout", "connection", "http_error", "bad_json"}

Responses(hotel_config) ==
    IF hotel_config.api_type = "jsonp"
    THEN { [kind |-> k, data |-> JsonpValue("empty", FALSE, FALSE, <<>>)] :
             k \in FetchFailures \cup {"no_envelope"} }
         \cup { [kind |-> "ok", data |-> d] : d \in JsonpData }
    ELSE { [kind |-> k, data |-> [shape |-> "empty", months |-> <<>>]] : k \in FetchFailures }
         \cup { [kind |-> "ok", data |-> d] : d \in HtmlData }

\* --- what the state file can hold before the first check
Tuple(room, date, count, price) ==
    [room |-> room, date |-> date, count |-> count, price |-> price]


PrevTuples ==
    { Tuple(<<"Kamikochi Taisho-ike Hotel", " - ", "Twin">>, Date("2025", "-", "10", "24"), 2, <<"¥", "9000">>),
      Tuple(<<"Ginzanso", " - ", "Room">>, DayClass("01"), 1, <<"Check website">>) }

InitialFiles ==
    { FileOfKind(k) : k \in {"absent", "unreadable", "unparseable", "not_dict", "bad_last"} }
    \cup { [kind |-> "dict", has_last |-> TRUE, last_available |-> <<>>,
            has_count |-> FALSE, check_count |-> 0] }
    \cup { [kind |-> "dict", has_last |-> TRUE, last_available |-> prev,
            has_count |-> TRUE, check_count |-> 7] :
             prev \in SeqUpTo(PrevTuples, MaxPrev) }

\* ================================================================ state
VARIABLES
    file,              \* content of monitor_state.json
    env,               \* environment variables that are set
    pc,                \* position in run_single_check / notify_all
    cycle,             \* check cycles started so far
    i,                 \* index of the next hotel to poll
    fetched,           \* per polled hotel: did it deliver data
    all_availability,  \* records gathered in this cycle
    state,             \* what load_state returned
    changes,           \* what detect_changes returned
    log,               \* log entries of this cycle
    notify_calls,      \* calls of notify_all in this cycle
    attempts,          \* send attempts per channel in this call of notify_all
    chan,              \* index of the next channel notify_all calls
    saved,             \* outcome of save_state in this cycle, "" before it
    unreleased,        \* history: a day was classified not_released in this cycle
    high_count,        \* history: the highest check_count the file has held
    interrupted,       \* where a KeyboardInterrupt was raised, "" if none was
    cell_icons,        \* the <i> elements of a day cell, in markup order
    cell_status,       \* what the icon loop made of them, <<>> before it ran
    site,              \* the reservation site the tracker talks to
    current_url,       \* navigate_to_target_month: the period current_url points to
    clicks,            \* navigate_to_target_month: navigation steps so far
    soup,              \* navigate_to_target_month: the page held, <<>> is None
    nav_soup,          \* the page navigate_to_target_month returned, <<>> is None
    ret,               \* where navigate_to_target_month returns to
    followed,          \* history: the controls the navigator followed
    starts,            \* history: the calls of the navigator in this check_availability
    check_soup,        \* check_availability: its soup, <<>> is None
    calendar_soup,     \* check_availability: the page after the search form
    response_url,      \* check_availability: response.url of the last response
    link,              \* check_availability: index of the potential link tried
    calendar_found,    \* check_availability: the flag of the loop over the links
    availability_info, \* check_availability: the parse result, <<>> before one
    adapter_config,    \* analyze_html_calendar_data: the hotel_config it is given
    adapter_data,      \* analyze_html_calendar_data: the api_data it is given
    last_status,       \* HotelAvailabilityTracker.last_status, "None" is None
    sends,             \* calls of send_notification in this iteration of the tracker
    delay              \* seconds of the time.sleep in progress in a loop, 0 outside one

iconVars == <<cell_icons, cell_status>>

adapterVars == <<adapter_config, adapter_data>>

trackerVars == <<last_status, sends>>

navVars == <<site, current_url, clicks, soup, nav_soup, ret, followed, starts>>

checkVars == <<check_soup, calendar_soup, response_url, link, calendar_found,
               availability_info>>

vars == <<file, env, pc, cycle, i, fetched, all_availability, state, changes,
          log, notify_calls, attempts, chan, saved, unreleased, high_count,
          interrupted, iconVars, adapterVars, trackerVars, delay, navVars, checkVars>>

\* check_availability is not running
CheckIdle ==
    /\ check_soup = <<>>
    /\ calendar_soup = <<>>
    /\ response_url = 0
    /\ link = 1
    /\ calendar_found = FALSE
    /\ availability_info = <<>>

\* the navigator is not running
NavIdle ==
    /\ site = <<>>
    /\ current_url = 0
    /\ clicks = 0
    /\ soup = <<>>
    /\ nav_soup = <<>>
    /\ ret = ""
    /\ followed = {}
    /\ starts = <<>>

\* the icon loop is not running
IconIdle == cell_icons = <<>> /\ cell_status = <<>>

\* the calendar adapter is not running on its own
AdapterIdle == adapter_config = <<>> /\ adapter_data = <<>>

\* the tracker's loop is not running
TrackerIdle == last_status = "None" /\ sends = 0

\* the dated day cells of the selected month of a calendar answer that
\* the icon loop classifies as not_released (history only)
UnreleasedDays(hotel_config, resp) ==
    IF hotel_config.api_type = "html_calendar" /\ resp.kind = "ok"
       /\ resp.data.shape = "dict" /\ FindTargetMonth(resp.data.months) # <<>>
    THEN LET m == FindTargetMonth(resp.data.months)[1]
         IN  IF m.data_ok
             THEN \E d \in DOMAIN m.days :
                     /\ ~m.days[d].blank
                     /\ FirstDateClass(FindDateElem(m.days[d].elems)) # <<>>
                     /\ ClassifyIcons(m.days[d].icons).status = "not_released"
             ELSE FALSE
    ELSE FALSE

NoChanges == detect_changes(<<>>, <<>>)

\* what one iteration of the loop over the hotels can come to for hotel h:
\* PollOne of every answer of h's backend, with the history flag
PollResults ==
    [h \in DOMAIN hotels |->
        { [poll |-> PollOne(hotels[h], resp),
           unreleased |-> UnreleasedDays(hotels[h], resp)] :
             resp \in Responses(hotels[h]) }]

\* ------------------------------------------------------ the check cycle
Init ==
    /\ file \in InitialFiles
    /\ env = EnvVars
    /\ pc = "idle"
    /\ cycle = 0
    /\ i = 1
    /\ fetched = <<>>
    /\ all_availability = <<>>
    /\ state = DefaultState
    /\ changes = NoChanges
    /\ log = {}
    /\ notify_calls = 0
    /\ attempts = NoAttempts
    /\ chan = 1
    /\ saved = ""
    /\ unreleased = FALSE
    /\ high_count = (IF file.has_count THEN file.check_count ELSE 0)
    /\ interrupted = ""
    /\ IconIdle
    /\ AdapterIdle
    /\ TrackerIdle
    /\ delay = 0
    /\ NavIdle
    /\ CheckIdle

\* a run of run_single_check begins (main in single mode, or the next
\* iteration of the loop of run_continuous_monitoring)
StartCheck ==
    /\ pc \in {"idle", "done", "crashed"}
    /\ cycle < MaxCycles
    /\ pc' = "poll"
    /\ cycle' = cycle + 1
    /\ i' = 1
    /\ fetched' = <<>>
    /\ all_availability' = <<>>
    /\ state' = DefaultState
    /\ changes' = NoChanges
    /\ log' = {}
    /\ notify_calls' = 0
    /\ attempts' = NoAttempts
    /\ chan' = 1
    /\ saved' = ""
    /\ unreleased' = FALSE
    /\ UNCHANGED <<file, env, high_count, interrupted, iconVars, adapterVars, trackerVars, delay, navVars, checkVars>>

\* one iteration of the loop over the hotels: call_api, then analyze_data
\* (outside any try), then extend
PollHotel ==
    /\ pc = "poll"
    /\ \E answer \in PollResults[i] :
         LET r == answer.poll
         IN  /\ log' = log \cup r.logged
             /\ fetched' = Append(fetched, r.fetched)
             /\ unreleased' = (unreleased \/ answer.unreleased)
             /\ IF r.raised
                THEN /\ pc' = "crashed"
                     /\ UNCHANGED <<i, all_availability>>
                ELSE /\ all_availability' = all_availability \o r.records
                     /\ i' = i + 1
                     /\ pc' = IF i = NumHotels THEN "detect" ELSE "poll"
    /\ UNCHANGED <<file, env, cycle, state, changes, notify_calls, attempts, chan, saved,
                   high_count, interrupted, iconVars, adapterVars, trackerVars, delay, navVars, checkVars>>

\* load_state and detect_changes
DetectChanges ==
    /\ pc = "detect"
    /\ LET l == load_state(file)
           d == DiffAgainst(all_availability, l.state)
       IN  /\ state' = l.state
           /\ IF d.raised
              THEN /\ pc' = "crashed"
                   /\ log' = log \cup l.logged
                   /\ UNCHANGED changes
              ELSE /\ pc' = "notify"
                   /\ changes' = d.changes
                   /\ log' = log \cup l.logged \cup {<<"info", "Found available", "">>}
    /\ UNCHANGED <<file, env, cycle, i, fetched, all_availability, notify_calls,
                   attempts, chan, saved, unreleased, high_count, interrupted, iconVars, adapterVars, trackerVars, delay, navVars, checkVars>>

\* the branch on has_changes: format the message, then notify_all once
Notify ==
    /\ pc = "notify"
    /\ IF changes.has_changes
       THEN LET m == format_notification_message(changes)
            IN  IF m.raised
                THEN /\ pc' = "crashed"
                     /\ UNCHANGED <<log, notify_calls, attempts, chan>>
                ELSE \E outs \in [Range(Channels) -> {"ok", "fail"}] :
                       /\ \A c \in Range(Channels) : outs[c] \in SendOutcomes(c, env)
                       /\ LET n == IF changes.new_available # <<>>
                                      \/ changes.lost_available # <<>>
                                   THEN notify_all(env, outs)
                                   ELSE [attempts |-> NoAttempts, logged |-> {},
                                         raised |-> FALSE]
                          IN  /\ notify_calls' =
                                    notify_calls + (IF changes.new_available # <<>>
                                                       \/ changes.lost_available # <<>>
                                                    THEN 1 ELSE 0)
                              /\ attempts' = n.attempts
                              /\ chan' = Len(Channels) + 1
                              /\ log' = log \cup n.logged
                              /\ pc' = IF n.raised THEN "crashed" ELSE "save"
       ELSE /\ pc' = "save"
            /\ log' = log \cup {<<"info", "No changes detected", "">>}
            /\ UNCHANGED <<notify_calls, attempts, chan>>
    /\ UNCHANGED <<file, env, cycle, i, fetched, all_availability, state, changes,
                   saved, unreleased, high_count, interrupted, iconVars, adapterVars, trackerVars, delay, navVars, checkVars>>

\* new_state and save_state; print_summary ends the run
SaveState ==
    /\ pc = "save"
    /\ \E out \in SaveOutcomes :
         LET w == save_state(file, NewState(changes, state), out)
         IN  /\ file' = w.file
             /\ log' = log \cup w.logged
             /\ saved' = out
             /\ high_count' = IF w.file.has_count /\ w.file.check_count > high_count
                              THEN w.file.check_count ELSE high_count
    /\ pc' = "done"
    /\ UNCHANGED <<env, cycle, i, fetched, all_availability, state, changes,
                   notify_calls, attempts, chan, unreleased, interrupted, iconVars, adapterVars, trackerVars, delay, navVars, checkVars>>

Next == StartCheck \/ PollHotel \/ DetectChanges \/ Notify \/ SaveState

Spec == Init /\ [][Next]_vars

\* ------------------------------------------------- notify_all on its own
\* notify_all has just been called, with any set of environment variables
InitNotify ==
    /\ file = FileOfKind("absent")
    /\ env \in SUBSET EnvVars
    /\ pc = "notify_all"
    /\ cycle = 1
    /\ i = NumHotels + 1
    /\ fetched = <<>>
    /\ all_availability = <<>>
    /\ state = DefaultState
    /\ changes = NoChanges
    /\ log = {}
    /\ notify_calls = 1
    /\ attempts = NoAttempts
    /\ chan = 1
    /\ saved = ""
    /\ unreleased = FALSE
    /\ high_count = 0
    /\ interrupted = ""
    /\ IconIdle
    /\ AdapterIdle
    /\ TrackerIdle
    /\ delay = 0
    /\ NavIdle
    /\ CheckIdle

\* the k-th call of notify_all
Send(k) ==
    /\ pc = "notify_all"
    /\ chan = k
    /\ \E out \in SendOutcomes(Channels[k], env) :
         LET r == SendNotification(Channels[k], env, out)
         IN  /\ attempts' = [attempts EXCEPT ![Channels[k]] = @ + (IF r.attempted THEN 1 ELSE 0)]
             /\ log' = log \cup r.logged
             /\ pc' = IF r.raised THEN "escaped"
                      ELSE IF k = Len(Channels) THEN "notified" ELSE "notify_all"
    /\ chan' = k + 1
    /\ UNCHANGED <<file, env, cycle, i, fetched, all_availability, state, changes,
                   notify_calls, saved, unreleased, high_count, interrupted, iconVars, adapterVars, trackerVars, delay, navVars, checkVars>>

SendEmail == Send(1)
SendDiscord == Send(2)
SendSlack == Send(3)
SendPushover == Send(4)
SendTelegram == Send(5)

NextNotify == SendEmail \/ SendDiscord \/ SendSlack \/ SendPushover \/ SendTelegram

SpecNotify == InitNotify /\ [][NextNotify]_vars

\* --------------------------------------------- the icon loop on its own
\* the monitor is not running
MonitorIdle ==
    /\ file = FileOfKind("absent")
    /\ env = {}
    /\ cycle = 0
    /\ i = 1
    /\ fetched = <<>>
    /\ all_availability = <<>>
    /\ state = DefaultState
    /\ changes = NoChanges
    /\ log = {}
    /\ notify_calls = 0
    /\ attempts = NoAttempts
    /\ chan = 1
    /\ saved = ""
    /\ unreleased = FALSE
    /\ high_count = 0
    /\ interrupted = ""

monitorVars == <<file, env, cycle, i, fetched, all_availability, state, changes,
                 notify_calls, attempts, chan, saved, unreleased, high_count,
                 interrupted>>

\* a day cell with any icons in any order is about to be classified
InitIcons ==
    /\ MonitorIdle
    /\ pc = "icons"
    /\ cell_icons \in SeqUpTo({CircleIcon, TriangleIcon, XmarkIcon, MinusIcon,
                             PlainMinusIcon}, MaxIcons)
    /\ cell_status = <<>>
    /\ NavIdle
    /\ CheckIdle
    /\ AdapterIdle
    /\ TrackerIdle
    /\ delay = 0

\* the loop over the cell's icons
ClassifyCell ==
    /\ pc = "icons"
    /\ cell_status' = <<ClassifyIcons(cell_icons)>>
    /\ pc' = "classified"
    /\ UNCHANGED <<monitorVars, log, cell_icons, navVars, checkVars, adapterVars, trackerVars, delay>>

NextIcons == ClassifyCell

SpecIcons == InitIcons /\ [][NextIcons]_vars

\* -------------------------------------------- run_continuous_monitoring
\* self.config['check_interval'], and the seconds slept after an error
check_interval == 300
RetryDelay == 60

\* monitor mode has just entered the "while True" loop
InitLoop ==
    /\ file \in {f \in InitialFiles : f.kind \in {"absent", "not_dict"}
                                       \/ (f.has_count /\ f.last_available = <<>>)}
    /\ env = EnvVars
    /\ pc = "loop"
    /\ cycle = 0
    /\ i = 1
    /\ fetched = <<>>
    /\ all_availability = <<>>
    /\ state = DefaultState
    /\ changes = NoChanges
    /\ log = {}
    /\ notify_calls = 0
    /\ attempts = NoAttempts
    /\ chan = 1
    /\ saved = ""
    /\ unreleased = FALSE
    /\ high_count = (IF file.has_count THEN file.check_count ELSE 0)
    /\ interrupted = ""
    /\ IconIdle
    /\ AdapterIdle
    /\ TrackerIdle
    /\ delay = 0
    /\ NavIdle
    /\ CheckIdle

\* the loop body calls run_single_check: at entry, or when a sleep is over
LoopStart ==
    /\ pc \in {"loop", "sleeping", "backoff"}
    /\ cycle < MaxCycles
    /\ pc' = "poll"
    /\ cycle' = cycle + 1
    /\ i' = 1
    /\ fetched' = <<>>
    /\ all_availability' = <<>>
    /\ state' = DefaultState
    /\ changes' = NoChanges
    /\ log' = {}
    /\ notify_calls' = 0
    /\ attempts' = NoAttempts
    /\ chan' = 1
    /\ saved' = ""
    /\ unreleased' = FALSE
    /\ delay' = 0
    /\ UNCHANGED <<file, env, high_count, interrupted, iconVars, adapterVars, trackerVars,
                   navVars, checkVars>>

\* run_single_check returned: time.sleep(check_interval)
Sleep ==
    /\ pc = "done"
    /\ pc' = "sleeping"
    /\ log' = log \cup {<<"info", "Sleeping", "">>}
    /\ delay' = check_interval
    /\ UNCHANGED <<monitorVars, iconVars, adapterVars, trackerVars, navVars, checkVars>>

CatchErrorUncaught ==
    /\ pc = "crashed"
    /\ pc' = "stopped"
    /\ UNCHANGED <<monitorVars, log, iconVars, adapterVars, trackerVars, delay, navVars, checkVars>>

\* "except Exception": the error is logged, then time.sleep(60)
CatchError ==
    /\ pc = "crashed"
    /\ pc' = "backoff"
    /\ log' = log \cup {<<"error", "Error in monitoring loop", "">>}
    /\ delay' = RetryDelay
    /\ UNCHANGED <<monitorVars, iconVars, adapterVars, trackerVars, navVars, checkVars>>

\* a KeyboardInterrupt is raised wherever the program is: inside
\* run_single_check no "except Exception" catches it, it reaches the loop's
\* "except KeyboardInterrupt" and the loop breaks; the same from the sleep
\* after a check; raised in the sleep of the "except Exception" handler it
\* leaves the loop uncaught
Interrupt ==
    /\ pc \in {"poll", "detect", "notify", "save", "sleeping", "backoff"}
    /\ interrupted' = pc
    /\ pc' = IF pc = "backoff" THEN "killed" ELSE "stopped"
    /\ log' = IF pc = "backoff" THEN log
              ELSE log \cup {<<"info", "Monitoring stopped by user", "">>}
    /\ UNCHANGED <<file, env, cycle, i, fetched, all_availability, state, changes,
                   notify_calls, attempts, chan, saved, unreleased, high_count,
                   iconVars, adapterVars, trackerVars, delay, navVars, checkVars>>

\* the steps the program takes on its own
LoopStep ==
    LoopStart \/ PollHotel \/ DetectChanges \/ Notify \/ SaveState \/ Sleep \/ CatchError

NextLoop == LoopStep \/ Interrupt

\* the program keeps running; an interrupt may or may not come
SpecLoop == InitLoop /\ [][NextLoop]_vars /\ WF_vars(LoopStep)

\* ================================================== hotel_tracker.py
\* ---------------------------------------------- navigate_to_target_month
max_clicks == 15

\* the month of CHECK_IN_DATE
target_month == 10

\* the caption of the next-period control (two words, "ato no" and "kikan",
\* in the site's language) and of the previous-period control
NextCaption == <<"ato no", "kikan">>
PrevCaption == <<"mae no", "kikan">>

\* an <a>, <input> or <button> element of a page: its string, its value and
\* title attributes, whether it has an href, whether a <form> encloses it,
\* and the period the server moves to when it is followed (dir)
Control(tag, text, value, title, type, href, in_form, dir) ==
    [tag |-> tag, text |-> text, value |-> value, title |-> title, type |-> type,
     href |-> href, in_form |-> in_form, dir |-> dir]

NextLink == Control("a", NextCaption, <<>>, <<>>, "", TRUE, FALSE, 1)
NextInput == Control("input", <<>>, NextCaption, <<>>, "submit", FALSE, TRUE, 1)

Controls == {NextLink,
     Control("a", PrevCaption, <<>>, <<>>, "", TRUE, FALSE, -1),
     Control("a", <<">>">>, <<>>, NextCaption, "", TRUE, FALSE, 1),
     Control("a", NextCaption, <<>>, <<>>, "", FALSE, FALSE, 1), NextInput,
     Control("input", <<>>, PrevCaption, <<>>, "submit", FALSE, TRUE, -1),
     Control("button", NextCaption, <<>>, <<>>, "submit", FALSE, TRUE, 1)}

\* page texts: both target dates, the month label, and a period before the
\* target month
DatesText == <<"10/", "24", "10/", "25">>
MonthLabelText == <<"10gatsu">>
OtherText == <<"9/", "28">>

\* the page of period n of the calendar: every period page carries the same
\* controls, and the period target_at shows the target month
\* urls from LinkBase on are the pages behind the landing page's links
LinkBase == 100

\* the page behind the k-th potential link, by its kind
LinkPage(kind, n) ==
    [period |-> n,
     text |-> CASE kind = "dates" -> DatesText
                [] kind = "indicators" -> <<"maru">>
                [] OTHER -> OtherText,
     controls |-> <<>>]

PageAt(st, n) ==
    IF n >= LinkBase THEN LinkPage(st.links[n - LinkBase], n)
    ELSE [period |-> n,
          text |-> IF n = st.target_at THEN st.target_text ELSE OtherText,
          controls |-> st.layout]

\* no period of the site shows the target month
NoTarget == max_clicks + 2

\* the periods that show the target month: the first ones, the ones around
\* the step budget, or none
TargetPeriods == {0, 1, 2, max_clicks - 1, max_clicks, max_clicks + 1, NoTarget}

Sites ==
    [layout : SeqUpTo(Controls, MaxControls),
     target_at : TargetPeriods,
     target_text : {DatesText, MonthLabelText}]

_is_target_month_displayed(page, month) ==
    \/ IsInfix(<<"10/", "24">>, page.text)
    \/ IsInfix(<<"10/", "25">>, page.text)
    \/ /\ month = 10
       /\ IsInfix(<<"10gatsu">>, page.text) \/ IsInfix(<<"10/">>, page.text)

\* soup.find(...): the first element in markup order that matches, <<>> if none
\* (hits are the positions of the elements that match)
Find(elems, hits) ==
    IF hits = {} THEN <<>>
    ELSE <<elems[CHOOSE k \in hits : \A j \in hits : k <= j]>>

\* "a or b" of two find results
OrElse(a, b) == IF a # <<>> THEN a ELSE b

\* the search for the next-period control, lines 351-391: exact string or
\* value, then title, then any string containing the caption whose parent is
\* a link, input or button; after that the first <input> whose value
\* contains "kikan" or "ato no" replaces whatever was found
next_period_link(elems) ==
    LET at == DOMAIN elems
        exact == OrElse(Find(elems, {k \in at : elems[k].tag = "a"
                                                /\ elems[k].text = NextCaption}),
                        Find(elems, {k \in at : elems[k].tag = "input"
                                                /\ elems[k].value = NextCaption}))
        titled == OrElse(exact,
                    OrElse(Find(elems, {k \in at : elems[k].tag = "a"
                                                   /\ elems[k].title = NextCaption}),
                           Find(elems, {k \in at : /\ elems[k].tag = "input"
                                                   /\ elems[k].type = "submit"
                                                   /\ elems[k].value = NextCaption})))
        by_text == OrElse(titled,
                     Find(elems, {k \in at : /\ IsInfix(NextCaption, elems[k].text)
                                             /\ elems[k].tag \in {"a", "input", "button"}}))
        nav_input == Find(elems, {k \in at : /\ elems[k].tag = "input"
                                             /\ \/ IsInfix(<<"kikan">>, elems[k].value)
                                                \/ IsInfix(<<"ato no">>, elems[k].value)})
    IN  OrElse(nav_input, by_text)

\* one pass through the body of "while clicks < max_clicks" from the page
\* held (held, <<>> is None), the url and the count n: the fetch when no page
\* is held or a step was made, the test for the target month, the search for
\* the control and the step; fetch_ok and post_ok tell whether the GET and
\* the POST of this pass succeed
Iteration(st, held, url, n, fetch_ok, post_ok) ==
    LET fetch == held = <<>> \/ n > 0
        page == IF fetch THEN PageAt(st, url) ELSE held[1]
        ctl == next_period_link(page.controls)
        failed == [outcome |-> "break", soup |-> held, url |-> url, clicks |-> n,
                   followed |-> {},
                   logged |-> {<<"error", "Error navigating calendar", "">>}]
    IN  IF fetch /\ ~fetch_ok THEN failed
        ELSE IF _is_target_month_displayed(page, target_month)
        THEN [outcome |-> "found", soup |-> <<page>>, url |-> url, clicks |-> n,
              followed |-> {}, logged |-> {<<"info", "Found target month", "">>}]
        ELSE IF ctl = <<>>
        THEN [outcome |-> "break", soup |-> <<page>>, url |-> url, clicks |-> n,
              followed |-> {},
              logged |-> {<<"warning", "No next period button found", "">>}]
        ELSE IF ctl[1].tag = "a" /\ ctl[1].href
        THEN [outcome |-> "continue", soup |-> <<page>>, url |-> page.period + ctl[1].dir,
              clicks |-> n + 1, followed |-> {ctl[1]}, logged |-> {}]
        ELSE IF ~ctl[1].in_form
        THEN [outcome |-> "break", soup |-> <<page>>, url |-> url, clicks |-> n,
              followed |-> {},
              logged |-> {<<"warning", "Could not determine how to navigate", "">>}]
        ELSE IF ~post_ok THEN [failed EXCEPT !.soup = <<page>>, !.followed = {ctl[1]}]
        ELSE [outcome |-> "continue", soup |-> <<page>>, url |-> page.period + ctl[1].dir,
              clicks |-> n + 1, followed |-> {ctl[1]}, logged |-> {}]

WithinBudgetAlways(n) == TRUE

\* the loop condition "clicks < max_clicks"
WithinBudget(n) == n < max_clicks

\* navigate_to_target_month has been called, with or without initial_soup
InitNav ==
    /\ MonitorIdle
    /\ IconIdle
    /\ AdapterIdle
    /\ TrackerIdle
    /\ delay = 0
    /\ CheckIdle
    /\ site \in Sites
    /\ current_url = 0
    /\ clicks = 0
    /\ soup \in {<<>>, <<PageAt(site, 0)>>}
    /\ nav_soup = <<>>
    /\ ret = "returned"
    /\ followed = {}
    /\ starts = <<>>
    /\ pc = "navigate"

\* one pass through the loop body; "found" returns the page, a break
\* leaves the loop and returns None
NavStep ==
    /\ pc = "navigate"
    /\ WithinBudget(clicks)
    /\ \E fetch_ok \in BOOLEAN, post_ok \in BOOLEAN :
         LET r == Iteration(site, soup, current_url, clicks, fetch_ok, post_ok)
         IN  /\ soup' = r.soup
             /\ current_url' = r.url
             /\ clicks' = r.clicks
             /\ followed' = followed \cup r.followed
             /\ log' = log \cup r.logged
                         \cup (IF r.outcome = "break"
                               THEN {<<"warning", "Could not reach target month", "">>}
                               ELSE {})
             /\ nav_soup' = IF r.outcome = "found" THEN r.soup ELSE <<>>
             /\ pc' = IF r.outcome = "continue" THEN "navigate" ELSE ret
    /\ UNCHANGED <<monitorVars, iconVars, adapterVars, trackerVars, delay, checkVars, site, ret, starts>>

\* the loop condition fails: the step budget is spent, None is returned
NavGiveUp ==
    /\ pc = "navigate"
    /\ ~WithinBudget(clicks)
    /\ nav_soup' = <<>>
    /\ log' = log \cup {<<"warning", "Could not reach target month", "">>}
    /\ pc' = ret
    /\ UNCHANGED <<monitorVars, iconVars, adapterVars, trackerVars, delay, checkVars, site, current_url, clicks, soup, ret,
                   followed, starts>>

NextNav == NavStep \/ NavGiveUp

SpecNav == InitNav /\ [][NextNav]_vars /\ WF_vars(NextNav)

\* ----------------------------------------------------- check_availability
\* the landing page is period 0 of the calendar
HOTEL_URL == 0

\* the period the search form leads to, and the one calendar.asp shows

\* the kinds of page behind a link with a calendar keyword: one with the
\* target dates, one with a calendar indicator, one with neither, and a link
\* back to HOTEL_URL
\* a site: the calendar, whether the landing page has the search form,
\* what the page after the form says about calendar.asp, and the links
CheckSites ==
    [layout : {<<>>, <<NextLink>>, <<NextInput>>},
     target_at : TargetPeriods,
     target_text : {DatesText, MonthLabelText},
     has_form : BOOLEAN,
     endpoint : {"absent", "not_found", "page"},
     links : SeqUpTo({"dates", "indicators", "plain", "self"}, MaxLinks)]

\* "10/24" in page_text and "10/25" in page_text
HasTargetDates(text) ==
    IsInfix(<<"10/", "24">>, text) /\ IsInfix(<<"10/", "25">>, text)

has_calendar_indicators(text) ==
    \E w \in {<<"karenda">>, <<"kushitsu">>, <<"maru">>, <<"batsu">>, NextCaption} :
       IsInfix(w, text)

\* _parse_availability of a page whose table has the page's dates in its
\* header row and no room rows: which page was parsed, whether a target date
\* was found, and the status that follows
_parse_availability(page) ==
    LET found == IsInfix(<<"10/", "24">>, page.text) \/ IsInfix(<<"10/", "25">>, page.text)
    IN  [status |-> IF found THEN "unknown" ELSE "target_dates_not_in_period",
         target_dates_found |-> found,
         page |-> page.period]

\* the dict of the except branches
ErrorInfo == [status |-> "error", target_dates_found |-> FALSE, page |-> -1]

InitCheck ==
    /\ MonitorIdle
    /\ IconIdle
    /\ AdapterIdle
    /\ TrackerIdle
    /\ delay = 0
    /\ CheckIdle
    /\ site \in CheckSites
    /\ current_url = 0
    /\ clicks = 0
    /\ soup = <<>>
    /\ nav_soup = <<>>
    /\ ret = ""
    /\ followed = {}
    /\ starts = <<>>
    /\ pc = "check"

\* a call of navigate_to_target_month(CHECK_IN_DATE, page, url)
CallNavigate(page, url, back) ==
    /\ soup' = page
    /\ current_url' = url
    /\ clicks' = 0
    /\ nav_soup' = <<>>
    /\ followed' = {}
    /\ starts' = Append(starts, <<back, link>>)
    /\ ret' = back
    /\ pc' = "navigate"

\* the GET of HOTEL_URL and the test for the target dates on it
CheckLanding ==
    /\ pc = "check"
    /\ \E get_ok \in BOOLEAN :
         IF ~get_ok
         THEN /\ availability_info' = <<ErrorInfo>>
              /\ log' = log \cup {<<"error", "Request failed", "">>}
              /\ pc' = "checked"
              /\ UNCHANGED check_soup
         ELSE LET page == PageAt(site, HOTEL_URL)
              IN  /\ check_soup' = <<page>>
                  /\ log' = log
                  /\ IF HasTargetDates(page.text)
                     THEN /\ availability_info' = <<_parse_availability(page)>>
                          /\ pc' = "checked"
                     ELSE /\ pc' = "form"
                          /\ UNCHANGED availability_info
    /\ response_url' = HOTEL_URL
    /\ UNCHANGED <<monitorVars, iconVars, adapterVars, trackerVars, delay, navVars, calendar_soup, link, calendar_found>>

\* _submit_search_form, the calendar.asp endpoint, and the test for the
\* target dates on the page held after them; without them the navigator
\* is called from that page
SubmitForm ==
    /\ pc = "form"
    /\ \E form_ok \in BOOLEAN, cal_ok \in BOOLEAN :
         LET submitted == IF site.has_form /\ form_ok
                          THEN <<PageAt(site, 1)>> ELSE <<>>
             cal == IF submitted # <<>> /\ site.endpoint = "page" /\ cal_ok
                    THEN <<PageAt(site, 2)>> ELSE submitted
         IN  /\ calendar_soup' = cal
             /\ IF cal = <<>>
                THEN /\ pc' = "links"
                     /\ UNCHANGED <<availability_info, navVars>>
                ELSE IF HasTargetDates(cal[1].text)
                THEN /\ availability_info' = <<_parse_availability(cal[1])>>
                     /\ pc' = "links"
                     /\ UNCHANGED navVars
                ELSE /\ CallNavigate(cal, response_url, "after_form")
                     /\ UNCHANGED <<availability_info, site>>
    /\ UNCHANGED <<monitorVars, log, iconVars, adapterVars, trackerVars, delay, check_soup, response_url, link, calendar_found>>

\* lines 157-160: the page the navigator returned, else calendar_soup
AfterFormNavigation ==
    /\ pc = "after_form"
    /\ availability_info' = IF nav_soup # <<>>
                            THEN <<_parse_availability(nav_soup[1])>>
                            ELSE <<_parse_availability(calendar_soup[1])>>
    /\ pc' = "links"
    /\ UNCHANGED <<monitorVars, log, iconVars, adapterVars, trackerVars, delay, navVars, check_soup, calendar_soup,
                   response_url, link, calendar_found>>

\* one pass through the loop over potential_links
TryLink ==
    /\ pc = "links"
    /\ link <= Len(site.links)
    /\ \E get_ok \in BOOLEAN :
         IF site.links[link] = "self" \/ ~get_ok
         THEN /\ link' = link + 1
              /\ pc' = "links"
              /\ UNCHANGED <<check_soup, response_url, calendar_found, availability_info,
                             navVars>>
         ELSE LET page == PageAt(site, LinkBase + link)
              IN  /\ response_url' = LinkBase + link
                  /\ IF HasTargetDates(page.text)
                     THEN /\ check_soup' = <<page>>
                          /\ availability_info' = <<_parse_availability(page)>>
                          /\ calendar_found' = TRUE
                          /\ pc' = "decide"
                          /\ UNCHANGED <<link, navVars>>
                     ELSE IF has_calendar_indicators(page.text)
                     THEN /\ check_soup' = <<page>>
                          /\ CallNavigate(<<>>, HOTEL_URL, "after_link")
                          /\ UNCHANGED <<link, calendar_found, availability_info, site>>
                     ELSE /\ check_soup' = <<page>>
                          /\ link' = link + 1
                          /\ pc' = "links"
                          /\ UNCHANGED <<calendar_found, availability_info, navVars>>
    /\ UNCHANGED <<monitorVars, log, iconVars, adapterVars, trackerVars, delay, calendar_soup>>

\* lines 215-219: soup is what the navigator returned, None included
AfterLinkNavigation ==
    /\ pc = "after_link"
    /\ check_soup' = nav_soup
    /\ IF nav_soup # <<>>
       THEN /\ availability_info' = <<_parse_availability(nav_soup[1])>>
            /\ calendar_found' = TRUE
            /\ pc' = "decide"
            /\ UNCHANGED link
       ELSE /\ link' = link + 1
            /\ pc' = "links"
            /\ UNCHANGED <<availability_info, calendar_found>>
    /\ UNCHANGED <<monitorVars, log, iconVars, adapterVars, trackerVars, delay, navVars, calendar_soup, response_url>>

\* lines 227-229: no link led to a calendar, navigate from the page held
FinalNavigate ==
    /\ pc = "links"
    /\ link > Len(site.links)
    /\ CallNavigate(check_soup, response_url, "after_final")
    /\ UNCHANGED <<monitorVars, log, iconVars, adapterVars, trackerVars, delay, checkVars, site>>

AfterFinalNavigation ==
    /\ pc = "after_final"
    /\ check_soup' = nav_soup
    /\ pc' = "decide"
    /\ UNCHANGED <<monitorVars, log, iconVars, adapterVars, trackerVars, delay, navVars, calendar_soup, response_url, link,
                   calendar_found, availability_info>>

\* lines 231-241: without a page HOTEL_URL is fetched again and parsed,
\* else the page held is parsed; the result is returned
Decide ==
    /\ pc = "decide"
    /\ IF check_soup = <<>>
       THEN \E get_ok \in BOOLEAN :
              IF get_ok
              THEN /\ check_soup' = <<PageAt(site, HOTEL_URL)>>
                   /\ availability_info' = <<_parse_availability(PageAt(site, HOTEL_URL))>>
                   /\ log' = log \cup {<<"warning", "Navigation failed, using original page", "">>}
                   /\ response_url' = HOTEL_URL
              ELSE /\ availability_info' = <<ErrorInfo>>
                   /\ log' = log \cup {<<"warning", "Navigation failed, using original page", "">>,
                                       <<"error", "Request failed", "">>}
                   /\ UNCHANGED <<check_soup, response_url>>
       ELSE /\ availability_info' = <<_parse_availability(check_soup[1])>>
            /\ UNCHANGED <<check_soup, response_url, log>>
    /\ pc' = "checked"
    /\ UNCHANGED <<monitorVars, iconVars, adapterVars, trackerVars, delay, navVars, calendar_soup, link, calendar_found>>

NextCheck ==
    \/ CheckLanding \/ SubmitForm \/ AfterFormNavigation \/ TryLink \/ AfterLinkNavigation
    \/ FinalNavigate \/ AfterFinalNavigation \/ Decide \/ NavStep \/ NavGiveUp

SpecCheck == InitCheck /\ [][NextCheck]_vars

\* the call runs on: nothing in check_availability waits for anything but
\* its own requests, which return or time out
SpecCheckFair == InitCheck /\ [][NextCheck]_vars /\ WF_vars(NextCheck)

\* ------------------------------- analyze_html_calendar_data on its own
\* an entry of self.hotels for a calendar backend, with its year and month
CalendarConfig(year, month) ==
    [name |-> "Ginzanso", api_type |-> "html_calendar",
     keys |-> {"name", "year", "month", "plan_type", "target_dates", "api_url", "api_type"},
     year |-> year, month |-> month,
     target_dates |-> << <<year, "-", month>> >>]

\* month entries whose day cells carry the day tokens of their own month
\* analyze_html_calendar_data is called with an answer and a hotel entry
InitAdapter ==
    /\ MonitorIdle
    /\ IconIdle
    /\ NavIdle
    /\ CheckIdle
    /\ TrackerIdle
    /\ delay = 0
    /\ adapter_config \in {<<CalendarConfig("2026", "2")>>, <<CalendarConfig("2026", "3")>>}
    /\ adapter_data \in
         { << [shape |-> "dict", months |-> ms] >> : ms \in SeqUpTo(
             { Month(February, TRUE, days) :
                 days \in SeqUpTo({Cell(<< <<<<"day">>, DayClass("01")>> >>, <<CircleIcon>>),
                                   Cell(<< <<<<"day">>, DayClass("02")>> >>, <<XmarkIcon>>)}, MaxDays) }
             \cup
             { Month(March, TRUE, days) :
                 days \in SeqUpTo({Cell(<< <<<<"day">>, <<"2026-03-", "01">>>> >>, <<CircleIcon>>)},
                                  MaxDays) }, 2) }
    /\ pc = "analyze"

Analyze ==
    /\ pc = "analyze"
    /\ LET a == analyze_html_calendar_data(adapter_data[1], adapter_config[1])
       IN  /\ all_availability' = a.results
           /\ log' = IF a.warned
                     THEN log \cup {<<"warning", "Could not find month data",
                                      adapter_config[1].name>>}
                     ELSE log
           /\ pc' = IF a.raised THEN "crashed" ELSE "analyzed"
    /\ UNCHANGED <<file, env, cycle, i, fetched, state, changes, notify_calls, attempts,
                   chan, saved, unreleased, high_count, interrupted, iconVars, navVars,
                   checkVars, adapterVars, trackerVars, delay>>

NextAdapter == Analyze

SpecAdapter == InitAdapter /\ [][NextAdapter]_vars

\* ----------------------------------------------------- _parse_availability
\* a page as _parse_availability sees it: the rows of its first table (or of
\* a div classed calendar/table), <<>> for a page without one, and the lines
\* of text outside the table; a row is a sequence of cells, a cell and a
\* line are token sequences ("shitsu" and "rumu" stand for the room
\* words, "maru" and "batsu" for the circle and the cross)
RoomType == <<"twin", "shitsu">>
RoomHeading == <<"heya">>
Date24 == <<"10/", "24">>
Date25 == <<"10/", "25">>

Documents ==
    [table : {<<>>} \cup {<<t>> : t \in SeqUpTo(
              { <<RoomHeading, Date24, Date25>>,
                <<RoomHeading, <<"10/", "26">>, Date24>>,
                <<RoomHeading, <<"10/", "26">>, <<"10/", "27">>>>,
                <<RoomHeading, Date24>>,
                <<RoomType, <<"maru">>, <<"batsu">>>>,
                <<RoomType, <<"batsu">>, <<"-">>>>,
                <<<<"single", "shitsu">>, <<>>, <<"maru">>>>,
                <<RoomType>> }, MaxRows)},
     lines : SeqUpTo(
              { RoomType \o Date24,
                <<"twin", "rumu">> \o Date25,
                RoomType,
                Date24,
                <<"maru">>,
                <<"batsu">> }, MaxLines)]

\* the cells of a row on one line of text
RECURSIVE JoinCells(_)
JoinCells(row) == IF row = <<>> THEN <<>> ELSE Head(row) \o JoinCells(Tail(row))

\* soup.get_text() split at the newlines: the free lines, then one line for
\* each row of the table
PageLines(doc) ==
    doc.lines \o (IF doc.table = <<>> THEN <<>>
                  ELSE [n \in DOMAIN doc.table[1] |-> JoinCells(doc.table[1][n])])

\* the text as one string, "\n" between the lines
RECURSIVE JoinLines(_)
JoinLines(lines) ==
    IF lines = <<>> THEN <<>>
    ELSE IF Len(lines) = 1 THEN lines[1]
    ELSE lines[1] \o <<"\n">> \o JoinLines(Tail(lines))

\* '/' in cell_text and any(char.isdigit() for char in cell_text)
IsDateLike(cell) == \E n \in DOMAIN cell : cell[n] \in {"10/", "9/"}

\* "10/24" in header or "10/25" in header
HasTargetDate(text) == IsInfix(Date24, text) \/ IsInfix(Date25, text)

\* the symbol test of lines 581-588
CellStatus(cell) ==
    IF IsInfix(<<"maru">>, cell) THEN "available"
    ELSE IF IsInfix(<<"batsu">>, cell) THEN "full"
    ELSE IF IsInfix(<<"-">>, cell) THEN "not_bookable"
    ELSE "unknown"

\* the dict a parse returns: room_availability as the set of
\* <<room type, date, status>> it holds, parsing_method "" when the key is
\* absent (timestamp, prices and raw texts are left out)
ParseResult(status, found, rooms, method) ==
    [status |-> status, target_dates_found |-> found, room_availability |-> rooms,
     parsing_method |-> method]

\* lines[max(0, i-2):i+3] joined
ContextText(lines, n) ==
    JoinLines(SubSeq(lines, IF n > 2 THEN n - 2 ELSE 1,
                     IF n + 2 < Len(lines) THEN n + 2 ELSE Len(lines)))

_parse_availability_from_text(lines) ==
    LET hits == {n \in DOMAIN lines :
                    /\ IsInfix(<<"shitsu">>, lines[n]) \/ IsInfix(<<"rumu">>, lines[n])
                    /\ HasTargetDate(lines[n])}
        \* a later line with the same text replaces the entry of an earlier one
        last == {n \in hits : \A m \in hits : lines[m] = lines[n] => m <= n}
        glyph(n) == IF IsInfix(<<"maru">>, ContextText(lines, n)) THEN "available"
                    ELSE IF IsInfix(<<"batsu">>, ContextText(lines, n)) THEN "full"
                    ELSE "unknown"
        rooms == {<<lines[n], d, glyph(n)>> : n \in last, d \in {Date24, Date25}}
        status == IF rooms = {} THEN "target_dates_found_but_no_rooms_parsed"
                  ELSE IF \E r \in rooms : r[3] = "available" THEN "available"
                  ELSE "no_availability"
    IN  ParseResult(status, TRUE, rooms, "text_based")

\* the header row: the date-like cells of the first row that has two of them
DateHeaders(rows) ==
    LET dated == {n \in DOMAIN rows : Len(SelectSeq(rows[n], IsDateLike)) >= 2}
    IN  IF dated = {} THEN <<>>
        ELSE SelectSeq(rows[CHOOSE n \in dated : \A m \in dated : n <= m], IsDateLike)

\* lines 470-624 for a page with its text
parse_availability(doc) ==
    IF doc.table = <<>>
    THEN ParseResult("no_calendar_found", FALSE, {}, "")
    ELSE
    LET rows == doc.table[1]
        page_text == JoinLines(PageLines(doc))
        date_headers == DateHeaders(rows)
        in_text == date_headers = <<>> /\ HasTargetDate(page_text)
        \* header k stands in column k + 1 of the rows
        target == {k \in DOMAIN date_headers : HasTargetDate(date_headers[k])}
        found == in_text \/ target # {}
        widest == CHOOSE k \in target : \A j \in target : j <= k
        room_rows == {n \in 2..Len(rows) :
                         /\ Len(rows[n]) > widest
                         /\ IsInfix(<<"shitsu">>, rows[n][1])}
        last_rows == {n \in room_rows :
                         \A m \in room_rows : rows[m][1] = rows[n][1] => m <= n}
        last_cols == {k \in target :
                         \A j \in target : date_headers[j] = date_headers[k] => j <= k}
        rooms == {<<rows[n][1], date_headers[k], CellStatus(rows[n][k + 1])>> :
                     n \in last_rows, k \in last_cols}
    IN  IF target = {} /\ ~found
        THEN ParseResult("target_dates_not_in_period", FALSE, {}, "")
        ELSE IF target = {}
        THEN _parse_availability_from_text(PageLines(doc))
        ELSE ParseResult(IF rooms = {} THEN "unknown"
                         ELSE IF \E r \in rooms : r[3] = "available" THEN "available"
                         ELSE "no_availability",
                         TRUE, rooms, "")

\* _parse_availability is called with a page
InitParse ==
    /\ MonitorIdle
    /\ IconIdle
    /\ AdapterIdle
    /\ TrackerIdle
    /\ delay = 0
    /\ NavIdle
    /\ check_soup \in {<<d>> : d \in Documents}
    /\ calendar_soup = <<>>
    /\ response_url = 0
    /\ link = 1
    /\ calendar_found = FALSE
    /\ availability_info = <<>>
    /\ pc = "parse"

Parse ==
    /\ pc = "parse"
    /\ availability_info' = <<parse_availability(check_soup[1])>>
    /\ pc' = "parsed"
    /\ UNCHANGED <<monitorVars, log, iconVars, adapterVars, trackerVars, delay, navVars, check_soup, calendar_soup,
                   response_url, link, calendar_found>>

NextParse == Parse

SpecParse == InitParse /\ [][NextParse]_vars

\* ----------------------- run_continuous_monitoring of hotel_tracker.py
CHECK_INTERVAL == 300

\* the module's SMTP settings, all empty as shipped
MailSettings ==
    [SMTP_SERVER |-> "", EMAIL_USER |-> "", EMAIL_PASS |-> "", NOTIFY_EMAIL |-> ""]

\* what check_availability can return: the parse of some page, or the dict
\* of its except branches (status and message only)
CheckResults == {parse_availability(d) : d \in Documents} \cup {ParseResult("error", FALSE, {}, "")}

\* send_notification: returns at once unless all four settings are set;
\* else builds and sends the mail inside try/except (the error dict has no
\* 'timestamp', the KeyError is caught there as well)
send_notification(info, smtp_ok) ==
    IF \E k \in DOMAIN MailSettings : MailSettings[k] = ""
    THEN {<<"info", "Email notification not configured", "">>}
    ELSE IF info.status # "error" /\ smtp_ok
    THEN {<<"info", "Notification email sent", "">>}
    ELSE {<<"error", "Failed to send email notification", "">>}

StatusChangedAlways(last, status) == TRUE

\* self.last_status != availability['status']
StatusChanged(last, status) == last # status

\* the tracker has just entered its "while True" loop
InitTracker ==
    /\ MonitorIdle
    /\ IconIdle
    /\ NavIdle
    /\ CheckIdle
    /\ AdapterIdle
    /\ last_status = "None"
    /\ sends = 0
    /\ delay = 0
    /\ pc = "track"

\* line 725: check_availability is called and returns its dict
TrackerCheck ==
    /\ pc \in {"track", "pausing", "retrying"}
    /\ cycle < MaxCycles
    /\ cycle' = cycle + 1
    /\ \E r \in CheckResults : availability_info' = <<r>>
    /\ sends' = 0
    /\ delay' = 0
    /\ log' = {}
    /\ pc' = "compare"
    /\ UNCHANGED <<file, env, i, fetched, all_availability, state, changes, notify_calls,
                   attempts, chan, saved, unreleased, high_count, interrupted, iconVars,
                   adapterVars, navVars, check_soup, calendar_soup, response_url, link,
                   calendar_found, last_status>>

\* lines 728-734: on a changed status, send_notification and the update of
\* last_status
CompareStatus ==
    /\ pc = "compare"
    /\ LET availability == availability_info[1]
       IN  IF StatusChanged(last_status, availability.status)
           THEN \E smtp_ok \in BOOLEAN :
                   /\ log' = log \cup {<<"info", "Status changed", "">>}
                                 \cup send_notification(availability, smtp_ok)
                   /\ sends' = sends + 1
                   /\ last_status' = availability.status
           ELSE UNCHANGED <<log, sends, last_status>>
    /\ pc' = "persist"
    /\ UNCHANGED <<monitorVars, iconVars, adapterVars, navVars, checkVars, delay>>

\* lines 737-741: latest_availability.json is written, then the sleep; an
\* error of the write reaches "except Exception"
Persist ==
    /\ pc = "persist"
    /\ \E write_ok \in BOOLEAN :
         IF write_ok
         THEN /\ pc' = "pausing"
              /\ delay' = CHECK_INTERVAL
              /\ log' = log
         ELSE /\ pc' = "retrying"
              /\ delay' = RetryDelay
              /\ log' = log \cup {<<"error", "Error in monitoring loop", "">>}
    /\ UNCHANGED <<monitorVars, iconVars, adapterVars, trackerVars, navVars, checkVars>>

\* a KeyboardInterrupt wherever the loop is; from the sleep of the
\* "except Exception" handler it leaves the loop uncaught
TrackerInterrupt ==
    /\ pc \in {"compare", "persist", "pausing", "retrying"}
    /\ interrupted' = pc
    /\ pc' = IF pc = "retrying" THEN "killed" ELSE "stopped"
    /\ log' = IF pc = "retrying" THEN log
              ELSE log \cup {<<"info", "Monitoring stopped by user", "">>}
    /\ UNCHANGED <<file, env, cycle, i, fetched, all_availability, state, changes,
                   notify_calls, attempts, chan, saved, unreleased, high_count,
                   iconVars, adapterVars, trackerVars, delay, navVars, checkVars>>

NextTracker == TrackerCheck \/ CompareStatus \/ Persist \/ TrackerInterrupt

SpecTracker == InitTracker /\ [][NextTracker]_vars

\* =============================================================== claims
\* the (room, date) key of a snapshot tuple
Key(t) == <<t.room, t.date>>

Keys(lst) == {Key(lst[k]) : k \in DOMAIN lst}

\* the snapshot tuples of the records of this cycle with status available
AvailableTuples ==
    { Tuple(r.room_name, r.date, r.available_count, r.price) :
        r \in {x \in Range(all_availability) : x.status = "available"} }

\* the previous snapshot the diff was computed against
Previous == IF state.has_last THEN state.last_available ELSE <<>>

\* detect_changes has returned in this cycle
Diffed == pc \in {"notify", "save", "done"}

\* previous tuples whose key is still available
Unchanged(lst, other) == {t \in Range(lst) : Key(t) \in Keys(other)}

\* C1: new_available is exactly the current available tuples whose key is
\* in no previous tuple, lost_available exactly the previous tuples whose key
\* is in no current available tuple; new and lost are disjoint, every previous
\* tuple is in exactly one of unchanged and lost, every current tuple in
\* exactly one of unchanged and new
C1_DiffComplementary ==
    Diffed =>
      /\ Range(changes.current_available) = AvailableTuples
      /\ Range(changes.new_available) =
            {t \in AvailableTuples : Key(t) \notin Keys(Previous)}
      /\ Range(changes.lost_available) =
            {t \in Range(Previous) : \A c \in AvailableTuples : Key(c) # Key(t)}
      /\ Range(changes.new_available) \cap Range(changes.lost_available) = {}
      /\ Keys(changes.new_available) \cap Keys(changes.lost_available) = {}
      /\ \A t \in Range(Previous) :
            (t \in Range(changes.lost_available))
               # (t \in Unchanged(Previous, changes.current_available))
      /\ \A t \in AvailableTuples :
            (t \in Range(changes.new_available))
               # (t \in Unchanged(changes.current_available, Previous))

\* a diff with a new, a lost and an unchanged tuple at once
C1_Witness ==
    /\ pc = "notify"
    /\ changes.new_available # <<>>
    /\ changes.lost_available # <<>>
    /\ Unchanged(Previous, changes.current_available) # {}

\* C2: when the available keys of the current records equal the keys of the
\* previous snapshot, has_changes is false and new and lost are empty, also
\* when count or price differ
C2_KeyEqualityOnly ==
    (Diffed /\ Keys(changes.current_available) = Keys(Previous)) =>
      /\ ~changes.has_changes
      /\ changes.new_available = <<>>
      /\ changes.lost_available = <<>>

\* the same key on both sides with a different count and price
C2_Witness ==
    /\ pc = "save"
    /\ ~changes.has_changes
    /\ \E c \in Range(changes.current_available), t \in Range(Previous) :
          Key(c) = Key(t) /\ c.count # t.count /\ c.price # t.price

\* C3: in each cycle notify_all is called if and only if has_changes, and
\* then exactly once (as claimed; the code raises before the call)
C3_NotifyIffChanges ==
    pc \in {"done", "crashed"} =>
      /\ changes.has_changes =
            (changes.new_available # <<>> \/ changes.lost_available # <<>>)
      /\ notify_calls = IF changes.has_changes THEN 1 ELSE 0

\* C4: notify_all attempts every enabled channel exactly once and no
\* disabled one; a failed send is logged, leaves no exception behind and the
\* channels after it are still attempted
C4_ChannelIsolation ==
    /\ pc # "escaped"
    /\ \A k \in DOMAIN Channels :
         LET c == Channels[k]
         IN  /\ attempts[c] <= 1
             /\ k < chan => attempts[c] = (IF Enabled(c, env) THEN 1 ELSE 0)
             /\ k >= chan => attempts[c] = 0
             /\ attempts[c] = 1 =>
                   (<<"info", "notification sent", c>> \in log)
                      # (<<"error", "Failed to send", c>> \in log)
             /\ attempts[c] = 0 => \A e \in log : e[3] # c
    /\ pc = "notified" => chan = Len(Channels) + 1

\* the first channel failed and the last one was still attempted
C4_Witness ==
    /\ pc = "notified"
    /\ <<"error", "Failed to send", "email">> \in log
    /\ <<"error", "Failed to send", "slack">> \in log
    /\ attempts["telegram"] = 1
    /\ ~Enabled("discord", env)

\* C5: no error of a backend's fetch or analysis leaves the check cycle:
\* the loop over the hotels always runs to its end (as claimed; analyze_data
\* is called outside any try)
C5_BackendFailsSoft ==
    pc = "crashed" => i > NumHotels

\* the records hotel h contributed to all_availability (room names carry
\* the hotel's name as their first part)
RecordsOf(h) == SelectSeq(all_availability, LAMBDA r : r.room_name[1] = hotels[h].name)

\* every record list hotel h's adapter can deliver
PossibleRecords ==
    [h \in DOMAIN hotels |->
        { PollOne(hotels[h], resp).records :
            resp \in {x \in Responses(hotels[h]) : ~PollOne(hotels[h], x).raised} }]

\* all_availability had hotel h delivered the records alt
RECURSIVE WithAnswer(_, _, _)
WithAnswer(h, alt, k) ==
    IF k > NumHotels THEN <<>>
    ELSE (IF k = h THEN alt ELSE RecordsOf(k)) \o WithAnswer(h, alt, k + 1)

\* a diff restricted to the rooms of the hotels other than h
SurvivorView(ch, h) ==
    [new_available |-> SelectSeq(ch.new_available, LAMBDA t : t.room[1] # hotels[h].name),
     lost_available |-> SelectSeq(ch.lost_available, LAMBDA t : t.room[1] # hotels[h].name),
     current_available |->
        SelectSeq(ch.current_available, LAMBDA t : t.room[1] # hotels[h].name)]

\* C6: a backend whose fetch fails contributes zero records, a log entry
\* names it, the fetch failure does not end the loop over the hotels, and the
\* diff restricted to the other hotels' rooms is what it would have been had
\* the failed backend answered
C6_SurvivorsUnaffected ==
    /\ (pc = "crashed" /\ i <= NumHotels) => fetched[Len(fetched)]
    /\ \A h \in DOMAIN fetched :
         ~fetched[h] =>
           /\ RecordsOf(h) = <<>>
           /\ <<"error", "Failed to get API data", hotels[h].name>> \in log
           /\ pc = "notify" =>
                LET seen == SurvivorView(changes, h)
                IN  \A alt \in PossibleRecords[h] :
                       SurvivorView(detect_changes(WithAnswer(h, alt, 1), Previous), h) = seen

\* the JSONP backend's fetch raised, the calendar backend answered and its
\* room is reported as new
C6_Witness ==
    /\ pc = "notify"
    /\ fetched = <<FALSE, TRUE>>
    /\ <<"error", "API call failed", hotels[1].name>> \in log
    /\ \E t \in Range(changes.new_available) : t.room[1] = hotels[2].name
    /\ \E t \in Range(changes.lost_available) : t.room[1] = hotels[1].name

\* C7 as claimed: every completed cycle leaves a snapshot whose
\* last_available equals the cycle's current_available
C7_SnapshotWritten ==
    pc = "done" =>
      /\ file.kind = "dict"
      /\ file.last_available = changes.current_available

\* C7 as amended: every completed cycle has called save_state with the
\* cycle's current_available; the file holds it when the write succeeded, and
\* a failed write is logged
C7_SnapshotWrittenUnlessWriteFails ==
    pc = "done" =>
      /\ saved \in SaveOutcomes
      /\ saved = "ok" =>
            /\ file.kind = "dict"
            /\ file.has_last
            /\ file.last_available = changes.current_available
      /\ saved # "ok" => <<"error", "Could not save state", "">> \in log

\* a cycle without change and without notification that rewrote the snapshot
C7_Witness ==
    /\ pc = "done"
    /\ saved = "ok"
    /\ ~changes.has_changes
    /\ notify_calls = 0
    /\ changes.current_available # <<>>
    /\ file.last_available # state.last_available

\* C8: reading the snapshot never aborts the cycle: with an absent,
\* unreadable or corrupt file the cycle goes on with the empty default and
\* every available tuple is new (as claimed; a parseable file of another
\* shape makes the diff step raise)
C8_LoadNeverAborts ==
    /\ (pc = "crashed" /\ i > NumHotels) => <<"info", "Found available", "">> \in log
    /\ (pc = "notify" /\ file.kind # "dict") =>
          /\ state = DefaultState
          /\ changes.new_available = changes.current_available

\* C9: no not_released record is among the records of a cycle; the tuples of
\* current_available and new_available come from records with status
\* available, lost_available from the previous snapshot, and the written
\* snapshot from current_available
C9_NotReleasedExcluded ==
    /\ \A r \in Range(all_availability) : r.status # "not_released"
    /\ Diffed =>
         /\ \A t \in Range(changes.current_available) \cup Range(changes.new_available) :
               \E r \in Range(all_availability) :
                  /\ r.status = "available"
                  /\ t = Tuple(r.room_name, r.date, r.available_count, r.price)
         /\ Range(changes.lost_available) \subseteq Range(Previous)
    /\ (pc = "done" /\ saved = "ok") =>
         Range(file.last_available) \subseteq AvailableTuples

\* the calendar showed a day that is not released next to an available one,
\* and the snapshot was written
C9_Witness ==
    /\ pc = "done"
    /\ saved = "ok"
    /\ unreleased
    /\ \E t \in Range(file.last_available) : t.room[1] = hotels[2].name

\* C10: every record of either adapter has status available if and only if
\* its available_count is positive
C10_AvailableIffCount ==
    \A r \in Range(all_availability) :
       (r.status = "available") <=> (r.available_count > 0)

\* both adapters delivered an available and an unavailable record
C10_Witness ==
    \A h \in DOMAIN hotels :
       /\ \E r \in Range(RecordsOf(h)) : r.status = "available"
       /\ \E r \in Range(RecordsOf(h)) : r.status = "sold_out" /\ r.available_count = 0

\* no two positions of the list of keys ks hold the same key
UniqueKeys(ks) ==
    \A a, b \in DOMAIN ks : ks[a] = ks[b] => a = b

\* the (room_name, date) keys of a list of records
RecordKeys(lst) == [k \in DOMAIN lst |-> <<lst[k].room_name, lst[k].date>>]

\* the (room, date) keys of a list of snapshot tuples
TupleKeys(lst) == [k \in DOMAIN lst |-> Key(lst[k])]

\* C11: within one cycle a (room_name, date) key is held by at most one
\* record of all_availability, one tuple of current_available, one of
\* new_available and one of the written snapshot (as claimed; the adapters'
\* records are appended and copied as they come, duplicates included)
C11_KeyUnique ==
    /\ UniqueKeys(RecordKeys(all_availability))
    /\ Diffed =>
         /\ UniqueKeys(TupleKeys(changes.current_available))
         /\ UniqueKeys(TupleKeys(changes.new_available))
    /\ (pc = "done" /\ saved = "ok") => UniqueKeys(TupleKeys(file.last_available))


\* C14: a channel is enabled only with all of its required configuration
\* present; a channel missing a required field makes no send attempt and logs
\* nothing (as claimed; email is enabled by EMAIL_USER alone and Pushover by
\* PUSHOVER_TOKEN alone)
C14_EnabledOnlyWhenConfigured ==
    \A k \in DOMAIN Channels :
       LET c == Channels[k]
       IN  ~(Credentials(c) \subseteq env) =>
             /\ ~Enabled(c, env)
             /\ attempts[c] = 0
             /\ \A e \in log : e[3] # c

\* the counter the cycle read: state.get('check_count', 0)
ReadCount == IF state.has_count THEN state.check_count ELSE 0

\* C17 as claimed: the counter written is the counter read plus one, and the
\* counter in the file never falls below a counter the file held before
C17_CounterMonotonic ==
    /\ (pc = "done" /\ saved = "ok") =>
          file.has_count /\ file.check_count = ReadCount + 1
    /\ file.has_count => file.check_count >= high_count

\* C17 as amended: the counter written is the counter read plus one, 0 being
\* read when the file gave no counter; a successful write stores a counter
\* above the one read
C17_CounterIncrements ==
    (pc = "done" /\ saved = "ok") =>
       /\ file.has_count
       /\ file.check_count = ReadCount + 1
       /\ state.has_count => file.check_count > state.check_count
       /\ ~state.has_count => file.check_count = 1

\* the second cycle in a row that read a counter and wrote the next one
C17_Witness ==
    /\ pc = "done"
    /\ saved = "ok"
    /\ cycle = 2
    /\ state.has_count
    /\ file.check_count = state.check_count + 1
    /\ file.check_count = high_count
    /\ high_count > 8

\* some icon of the cell carries the class tokens pat
HasIcon(cell, pat) == \E k \in DOMAIN cell : IsInfix(pat, cell[k])

\* the status by precedence over the whole cell
PrecedenceStatus(cell) ==
    IF HasIcon(cell, CircleIcon) \/ HasIcon(cell, TriangleIcon)
    THEN [status |-> "available", available_count |-> 1]
    ELSE IF HasIcon(cell, XmarkIcon)
    THEN [status |-> "sold_out", available_count |-> 0]
    ELSE IF HasIcon(cell, MinusIcon)
    THEN [status |-> "not_released", available_count |-> 0]
    ELSE [status |-> "not_bookable", available_count |-> 0]

\* C18: the status of a day cell is decided by precedence over all of its
\* icons, whatever their order: available with a circle or triangle, else
\* sold_out with an X, else not_released with a minus (as claimed; the loop
\* lets the first matching icon in markup order decide)
C18_IconPrecedence ==
    pc = "classified" => cell_status = <<PrecedenceStatus(cell_icons)>>

\* C15: in monitor mode an exception that leaves run_single_check is logged
\* and does not end the loop: the loop ends only by a KeyboardInterrupt, and
\* after the exception another check is started unless the user interrupts
C15_LoopSurvivesExceptions ==
    /\ [](pc = "backoff" => <<"error", "Error in monitoring loop", "">> \in log)
    /\ [](pc \in {"stopped", "killed"} => interrupted # "")
    /\ []((pc = "crashed" /\ cycle < MaxCycles) => <>(pc = "poll" \/ interrupted # ""))

\* the second check has begun although the state file holds a JSON list,
\* with which every check ends in an exception
C15_Witness ==
    /\ pc = "poll"
    /\ cycle = 2
    /\ file.kind = "not_dict"
    /\ interrupted = ""

\* C16: a KeyboardInterrupt stops the loop only between two checks, never
\* inside a started check before its snapshot write (as claimed; it is
\* raised wherever the program is)
C16_InterruptBetweenCycles ==
    interrupted \notin {"poll", "detect", "notify", "save"}

\* C12: navigate_to_target_month always returns, it makes at most
\* max_clicks (15) navigation steps, and on a site none of whose pages shows
\* the target month it returns no page
C12_NavigatorBounded ==
    /\ [](clicks <= max_clicks)
    /\ <>(pc = "returned")
    /\ []((pc = "returned" /\ site.target_at = NoTarget) => nav_soup = <<>>)

\* the step budget was spent on a site that never shows the target month
C12_Witness ==
    /\ pc = "returned"
    /\ site.target_at = NoTarget
    /\ clicks = max_clicks
    /\ nav_soup = <<>>
    /\ followed # {}

\* C19: when the page the navigator arrived at after at most max_clicks
\* steps shows the target month, the navigator returns that page (as
\* claimed; the page reached by the last step of the budget is never looked at)
C19_FoundWhenDisplayed ==
    (/\ pc = "returned"
     /\ <<"error", "Error navigating calendar", "">> \notin log
     /\ clicks <= max_clicks
     /\ _is_target_month_displayed(PageAt(site, current_url), target_month))
    => nav_soup = <<PageAt(site, current_url)>>

\* a control whose string, value or title is the next-period caption
ExactNext(c) == c.text = NextCaption \/ c.value = NextCaption \/ c.title = NextCaption

\* C20: every control the navigator follows carries exactly the
\* next-period caption (as claimed; an <input> whose value merely contains
\* one word of it, such as the previous-period button, is followed)
C20_OnlyNextFollowed ==
    \A c \in followed : ExactNext(c)

\* C13: when the last call of the navigator returned no page,
\* check_availability returns the parse of the page the navigator last held
\* (as claimed; HOTEL_URL is fetched again and that page is parsed, and a
\* failure of this fetch makes the result an error)
C13_ExhaustedParsesLastPage ==
    (pc = "checked" /\ ret = "after_final" /\ nav_soup = <<>> /\ soup # <<>>)
    => availability_info = <<_parse_availability(soup[1])>>

\* C21: the fallback steps of check_availability run in order and stop at
\* the first one that parsed a page showing the target dates: when the page
\* held after the form submission (or the calendar endpoint) shows them, no
\* link is fetched, the navigator is never started, and the check returns
\* the parse of that page (as claimed; lines 164-239 run after the form
\* branch whatever it found, and their parse replaces the result)
C21_FirstSuccessfulStepWins ==
    (pc = "checked" /\ calendar_soup # <<>> /\ HasTargetDates(calendar_soup[1].text))
    => /\ availability_info = <<_parse_availability(calendar_soup[1])>>
       /\ ret = ""
       /\ response_url = HOTEL_URL

C23_ReadOnceWrittenOnce ==
    /\ pc \in {"poll", "detect"} => (state = DefaultState /\ saved = "")
    /\ pc \in {"notify", "save"} => saved = ""
    /\ pc \in {"done", "crashed"} => saved \in SaveOutcomes

\* C24: a page without any table is parsed by the free-text heuristic, and
\* every result of the free-text path is labelled parsing_method =
\* "text_based" (as claimed; without a table the parse returns
\* no_calendar_found at once and the text is not examined)
C24_NoTableFallsBackToText ==
    pc = "parsed" =>
      /\ check_soup[1].table = <<>> =>
            availability_info[1] = _parse_availability_from_text(PageLines(check_soup[1]))
      /\ (/\ check_soup[1].table # <<>>
          /\ DateHeaders(check_soup[1].table[1]) = <<>>
          /\ HasTargetDate(JoinLines(PageLines(check_soup[1])))) =>
            /\ availability_info[1] = _parse_availability_from_text(PageLines(check_soup[1]))
            /\ availability_info[1].parsing_method = "text_based"
      /\ availability_info[1].parsing_method \in {"", "text_based"}

\* the caption and the day-token prefix of a configured year and month
CaptionOf(cfg) == <<cfg.year \o "nen", cfg.month \o "gatsu">>

DayPrefixOf(cfg) == cfg.year \o "-0" \o cfg.month \o "-"

\* C25: whatever year and month the hotel entry names, the adapter takes
\* its records from a month entry whose caption is that of the configured
\* year and month and every date it extracts is a day token of that
\* year-month; without such an entry it reports nothing (as claimed; the
\* caption and the day-token prefix are literals of February 2026)
C25_ConfiguredMonthSelected ==
    pc = "analyzed" =>
      /\ \A n \in DOMAIN all_availability :
            all_availability[n].date[1] = DayPrefixOf(adapter_config[1])
      /\ (\A m \in DOMAIN adapter_data[1].months :
             ~IsInfix(CaptionOf(adapter_config[1]), adapter_data[1].months[m].calendarCaption))
          => (all_availability = <<>>
              /\ <<"warning", "Could not find month data", adapter_config[1].name>> \in log)

\* C26: the loop waits longer after a cycle that failed with an unexpected
\* error than after a cycle that returned (as claimed; it sleeps 60 seconds
\* after an error and check_interval = 300 seconds after a check)
C26_BackoffLongerThanInterval ==
    pc = "backoff" => delay > check_interval

\* the previous tuples of hotel h (room names carry the hotel's name)
PreviousOf(h) == {t \in Range(Previous) : t.room[1] = hotels[h].name}

\* C27: when a backend's fetch failed, every tuple of that backend in the
\* previous snapshot is in lost_available, the cycle notifies once and ends
\* with its write, and the snapshot written holds none of them, so that they
\* are new again when the backend answers again (as claimed; the cycle ends
\* in the KeyError of C3 before the notification and the write)
C27_FailedBackendReportedLost ==
    \A h \in DOMAIN fetched :
       (~fetched[h] /\ PreviousOf(h) # {}) =>
          /\ Diffed => PreviousOf(h) \subseteq Range(changes.lost_available)
          /\ pc # "crashed"
          /\ pc = "done" =>
                /\ notify_calls = 1
                /\ saved = "ok" =>
                      \A t \in PreviousOf(h) : Key(t) \notin Keys(file.last_available)

\* C28: when the snapshot write fails the error is logged, the cycle still
\* completes, and the stored snapshot stays as it was: reading it again
\* gives what this cycle read, so that the next cycle diffs against the stale
\* snapshot (as claimed; a dump that fails after open() leaves the file
\* truncated and the next cycle reads the default instead)
C28_FailedWriteLeavesSnapshot ==
    (pc = "done" /\ saved \in SaveOutcomes \ {"ok"}) =>
      /\ <<"error", "Could not save state", "">> \in log
      /\ load_state(file).state = state

\* C29: in the tracker's loop send_notification is called in an iteration
\* exactly when the status the check returned differs from last_status, and
\* once the comparison is done last_status is that status; last_status
\* starts as None, so the first check always notifies, and a check that
\* ended in status "error" is compared like any other
C29_NotifyIffStatusChanged ==
    /\ [](pc \in {"persist", "pausing", "retrying"} =>
             (last_status = availability_info[1].status /\ sends \in {0, 1}))
    /\ []((pc = "persist" /\ cycle = 1) => sends = 1)
    /\ [][(pc = "compare" /\ pc' = "persist") =>
             /\ sends' = (IF last_status # availability_info[1].status THEN 1 ELSE 0)
             /\ last_status' = availability_info[1].status]_vars

\* the second check ended in status "error" after a first one that did not:
\* one notification; and last_status is "error"
C29_Witness ==
    /\ pc = "persist"
    /\ cycle = 2
    /\ sends = 1
    /\ last_status = "error"
    /\ availability_info[1].status = "error"

====
